---- MODULE Spec2Model ----
(***************************************************************************)
(* Model of parseTransaction and its three decoders (parseRemoveLiquidity, *)
(* parseAddLiquidity, parseExchange): classification of a raw transaction  *)
(* sent to a Curve pool into a CurveTransaction record.                    *)
(*                                                                         *)
(* Conventions.  An optional JavaScript value (T | undefined) is a         *)
(* sequence of length at most one: <<>> is undefined, <<v>> is v.  A       *)
(* string the code inspects character by character (the function name) is  *)
(* a sequence of one-character strings.  A string of decimal digits that   *)
(* the code converts with Number() is a sequence of digits.  A Decimal is  *)
(* a record [m, e] standing for m / 10^e, kept normalised (no trailing     *)
(* zero in m while e > 0), so that equal values are equal records.         *)
(* Decimal arithmetic is exact here: the working precision of decimal.js   *)
(* is not part of the model.                                               *)
(***************************************************************************)
EXTENDS Integers, Sequences, FiniteSets, TLC

VARIABLES pool, tx, decoded, ret, thrown, console, decodeCalls, pc

vars == <<pool, tx, decoded, ret, thrown, console, decodeCalls, pc>>

-----------------------------------------------------------------------------
(* Bounds of the explored inputs *)

MaxCoins == 2
MaxRaw == 1

-----------------------------------------------------------------------------
(* Optional values *)

None == <<>>
Some(v) == <<v>>
IsSome(o) == o # <<>>
Get(o) == o[1]

(* a ?? b *)
Coalesce_flip(a, b) == IF b # None THEN b ELSE a
Coalesce(a, b) == IF a # None THEN a ELSE b

-----------------------------------------------------------------------------
(* Function names, as character sequences *)

S_remove_liquidity == <<"r","e","m","o","v","e","_","l","i","q","u","i","d","i","t","y">>
S_add_liquidity == <<"a","d","d","_","l","i","q","u","i","d","i","t","y">>
S_exchange == <<"e","x","c","h","a","n","g","e">>
S_remove_liquidity_imbalance == S_remove_liquidity \o <<"_","i","m","b","a","l","a","n","c","e">>
S_remove_liquidity_one_coin == S_remove_liquidity \o <<"_","o","n","e","_","c","o","i","n">>
S_exchange_underlying == S_exchange \o <<"_","u","n","d","e","r","l","y","i","n","g">>
S_remove_liquidity_other == S_remove_liquidity \o <<"_","x">>
S_add_liquidity_other == S_add_liquidity \o <<"_","x">>
S_exchange_other == S_exchange \o <<"_","x">>
S_transfer == <<"t","r","a","n","s","f","e","r">>
S_add == <<"a","d","d">>

(* String.prototype.startsWith *)
startsWith(s, p) == Len(s) >= Len(p) /\ SubSeq(s, 1, Len(p)) = p

-----------------------------------------------------------------------------
(* Numbers and decimals *)

RECURSIVE Pow10(_)
Pow10(n) == IF n = 0 THEN 1 ELSE 10 * Pow10(n - 1)

(* Number(s) of a string of decimal digits *)
RECURSIVE Number(_)
Number(ds) ==
  IF Len(ds) = 0 THEN 0
  ELSE 10 * Number(SubSeq(ds, 1, Len(ds) - 1)) + ds[Len(ds)]

RECURSIVE Normalize(_)
Normalize(d) ==
  IF d.m = 0 THEN [m |-> 0, e |-> 0]
  ELSE IF d.e > 0 /\ d.m % 10 = 0 THEN Normalize([m |-> d.m \div 10, e |-> d.e - 1])
  ELSE d

(* ethers.utils.formatUnits(raw, decimals): the digits of raw with the     *)
(* decimal point moved `decimals` places to the left.                      *)
formatUnits_raw(raw, decimals) == [m |-> raw, e |-> 0]
formatUnits(raw, decimals) == [m |-> raw, e |-> decimals]

(* new Decimal(string) *)
newDecimal(s) == Normalize(s)

(* Decimal.prototype.add *)
DecimalAdd(a, b) ==
  LET e == IF a.e >= b.e THEN a.e ELSE b.e
  IN  Normalize([m |-> a.m * Pow10(e - a.e) + b.m * Pow10(e - b.e), e |-> e])

Zero == newDecimal([m |-> 0, e |-> 0])

CURVE_POOL_TOKEN_DECIMALS == 18

UNKNOWN == "UNKNOWN"

ADD_LIQUIDITY == "add_liquidity"
REMOVE_LIQUIDITY == "remove_liquidity"
EXCHANGE == "exchange"

-----------------------------------------------------------------------------
(* Outcome of a decoder: a thrown error, or a returned value (a            *)
(* CurveTransaction or undefined) together with the console.warn calls.    *)

Throw(code) == [thrown |-> Some(code), console |-> <<>>, value |-> None]
Return(v) == [thrown |-> None, console |-> <<>>, value |-> v]
Warn(tag, name) ==
  [thrown |-> None, console |-> <<[tag |-> tag, name |-> name]>>, value |-> None]

(* pool.coins[i] for a JavaScript (0-based) index; undefined out of range *)
coinAt(coins, i) ==
  IF IsSome(i) /\ Get(i) >= 0 /\ Get(i) < Len(coins) THEN Some(coins[Get(i) + 1]) ELSE None

(* lodash.compact on an array of objects and undefined *)
RECURSIVE compact(_)
compact(xs) ==
  IF Len(xs) = 0 THEN <<>>
  ELSE IF IsSome(xs[1]) THEN <<Get(xs[1])>> \o compact(SubSeq(xs, 2, Len(xs)))
  ELSE compact(SubSeq(xs, 2, Len(xs)))

(* The callback of rawAmounts.map: undefined for a zero amount, else the   *)
(* token of coin i with its converted amount.                              *)
mapToken_keepzero(rawAmount, coin, type) ==
  Some([symbol |-> coin.symbol, address |-> coin.address,
        amount |-> Some(newDecimal(formatUnits(rawAmount, Number(coin.decimals)))),
        type |-> type])
mapToken(rawAmount, coin, type) ==
  IF rawAmount = 0 THEN None
  ELSE Some([symbol |-> coin.symbol, address |-> coin.address,
             amount |-> Some(newDecimal(formatUnits(rawAmount, Number(coin.decimals)))),
             type |-> type])

(* The callback reads coin.decimals of an undefined coin *)
mapThrows(rawAmounts, coins) ==
  \E i \in 1..Len(rawAmounts) : rawAmounts[i] # 0 /\ i > Len(coins)

mapTokens(rawAmounts, coins, type) ==
  compact([i \in 1..Len(rawAmounts) |->
             IF i <= Len(coins) THEN mapToken(rawAmounts[i], coins[i], type) ELSE None])

(* totalAmount after the map: totalAmount = totalAmount.add(amount) for    *)
(* each non-zero entry, from new Decimal(0)                                *)
RECURSIVE accumulate_first(_, _, _, _)
accumulate_first(rawAmounts, coins, i, acc) ==
  IF i > Len(rawAmounts) \/ i > Len(coins) THEN acc
  ELSE IF rawAmounts[i] = 0 THEN accumulate_first(rawAmounts, coins, i + 1, acc)
  ELSE newDecimal(formatUnits(rawAmounts[i], Number(coins[i].decimals)))
RECURSIVE accumulate(_, _, _, _)
accumulate(rawAmounts, coins, i, acc) ==
  IF i > Len(rawAmounts) \/ i > Len(coins) THEN acc
  ELSE IF rawAmounts[i] = 0 THEN accumulate(rawAmounts, coins, i + 1, acc)
  ELSE accumulate(rawAmounts, coins, i + 1,
         DecimalAdd(acc, newDecimal(formatUnits(rawAmounts[i], Number(coins[i].decimals)))))

(* totalAmount: pool.assetTypeName !== UNKNOWN ? totalAmount : undefined *)
totalAmountField_always(p, totalAmount) == Some(totalAmount)
totalAmountField(p, totalAmount) ==
  IF p.assetTypeName # UNKNOWN THEN Some(totalAmount) ELSE None

(* totalAmount of the two burn variants: the LP amount in pool-token units *)
burnTotal_coin(rawAmount, coin) ==
  newDecimal(formatUnits(rawAmount, Number(coin.decimals)))
burnTotal(rawAmount, coin) ==
  newDecimal(formatUnits(rawAmount, CURVE_POOL_TOKEN_DECIMALS))

parseRemoveLiquidity(t, p, decodedInput) ==
  LET name == decodedInput.name
      args == decodedInput.args
      record(totalAmount, tokens) ==
        [hash |-> t.hash, pool |-> p.address, timestamp |-> Number(t.timeStamp),
         type |-> REMOVE_LIQUIDITY,
         totalAmount |-> totalAmountField(p, totalAmount), tokens |-> tokens]
  IN
  IF name = S_remove_liquidity_imbalance THEN
    LET rawAmounts == Coalesce(args["_amounts"], args["amounts"])
    IN  IF rawAmounts = None THEN Throw("TypeError")
        ELSE IF mapThrows(Get(rawAmounts), p.coins) THEN Throw("TypeError")
        ELSE Return(Some(record(accumulate(Get(rawAmounts), p.coins, 1, Zero),
                                mapTokens(Get(rawAmounts), p.coins, "remove"))))
  ELSE IF name = S_remove_liquidity_one_coin THEN
    LET rawAmount == Coalesce(Coalesce(args["_token_amount"], args["token_amount"]),
                              args["_burn_amount"])
        coin == coinAt(p.coins, args["i"])
    IN  IF rawAmount = None THEN Throw("INVALID_ARGUMENT")
        ELSE IF coin = None THEN Throw("TypeError")
        ELSE Return(Some(record(burnTotal(Get(rawAmount), Get(coin)),
               <<[symbol |-> Get(coin).symbol, address |-> Get(coin).address,
                  amount |-> None, type |-> "remove"]>>)))
  ELSE IF name = S_remove_liquidity THEN
    LET rawAmount == Coalesce(args["_amount"], args["_burn_amount"])
    IN  IF rawAmount = None THEN Throw("INVALID_ARGUMENT")
        ELSE Return(Some(record(
               newDecimal(formatUnits(Get(rawAmount), CURVE_POOL_TOKEN_DECIMALS)),
               [k \in 1..Len(p.coins) |->
                  [symbol |-> p.coins[k].symbol, address |-> p.coins[k].address,
                   amount |-> None, type |-> "remove"]])))
  ELSE Warn("[parseRemoveLiquidity] Unknown transaction type: ", name)

parseAddLiquidity(t, p, decodedInput) ==
  LET name == decodedInput.name
      args == decodedInput.args
  IN
  IF name = S_add_liquidity THEN
    LET rawAmounts == Coalesce(Coalesce(args["_amounts"], args["amounts"]), args["uamounts"])
    IN  IF rawAmounts = None THEN Throw("TypeError")
        ELSE IF mapThrows(Get(rawAmounts), p.coins) THEN Throw("TypeError")
        ELSE Return(Some(
               [hash |-> t.hash, pool |-> p.address, timestamp |-> Number(t.timeStamp),
                type |-> ADD_LIQUIDITY,
                totalAmount |-> totalAmountField(p,
                                  accumulate(Get(rawAmounts), p.coins, 1, Zero)),
                tokens |-> mapTokens(Get(rawAmounts), p.coins, "add")]))
  ELSE Warn("[parseAddLiquidity] Unknown transaction type: ", name)

(* The two tokens of an exchange, source first *)
exchangeTokens_swapped(fromCoin, toCoin, totalAmount) ==
  << [symbol |-> toCoin.symbol, address |-> toCoin.address,
      amount |-> None, type |-> "remove"],
     [symbol |-> fromCoin.symbol, address |-> fromCoin.address,
      amount |-> Some(totalAmount), type |-> "add"] >>
exchangeTokens(fromCoin, toCoin, totalAmount) ==
  << [symbol |-> fromCoin.symbol, address |-> fromCoin.address,
      amount |-> Some(totalAmount), type |-> "add"],
     [symbol |-> toCoin.symbol, address |-> toCoin.address,
      amount |-> None, type |-> "remove"] >>

parseExchange(t, p, decodedInput) ==
  LET name == decodedInput.name
      args == decodedInput.args
  IN
  IF name = S_exchange THEN
    IF args["i"] = None \/ args["j"] = None THEN Throw("TypeError")
    ELSE
    LET fromCoin == coinAt(p.coins, args["i"])
        toCoin == coinAt(p.coins, args["j"])
        rawAmount == Coalesce(args["dx"], args["_dx"])
    IN  IF fromCoin = None THEN Throw("TypeError")
        ELSE IF rawAmount = None THEN Throw("INVALID_ARGUMENT")
        ELSE IF toCoin = None THEN Throw("TypeError")
        ELSE LET totalAmount ==
                   newDecimal(formatUnits(Get(rawAmount), Number(Get(fromCoin).decimals)))
             IN  Return(Some(
                   [hash |-> t.hash, pool |-> p.address, timestamp |-> Number(t.timeStamp),
                    type |-> EXCHANGE,
                    totalAmount |-> totalAmountField(p, totalAmount),
                    tokens |-> exchangeTokens(Get(fromCoin), Get(toCoin), totalAmount)]))
  ELSE IF name = S_exchange_underlying THEN Return(None)
  ELSE Warn("[parseExchange] Unknown transaction type: ", name)

(* tx.txreceipt_status !== '1' || tx.isError === '1' *)
isFailed_statusonly(t) == t.txreceipt_status # "1"
isFailed(t) == t.txreceipt_status # "1" \/ t.isError = "1"

(* !tx.to *)
noRecipient(t) == t.to = ""

(* the catch clause: (e as any).code === 'INVALID_ARGUMENT' *)
isNoMatch_any(code) == TRUE
isNoMatch(code) == code = "INVALID_ARGUMENT"

(* Whether parseTransaction reaches pool.interface.parseTransaction *)
reachesDecode(t) == ~isFailed(t) /\ ~noRecipient(t)

(* parseTransaction: d is what pool.interface.parseTransaction answers for *)
(* tx.input when it is called.                                             *)
parseTransaction(p, t, d) ==
  LET absent == [decodedInput |-> None, transaction |-> None]
      done(r, th, co, n) == [ret |-> r, thrown |-> th, console |-> co, decodeCalls |-> n]
  IN
  IF isFailed(t) THEN done(Some(absent), None, <<>>, 0)
  ELSE IF noRecipient(t) THEN done(Some(absent), None, <<>>, 0)
  ELSE IF d.kind = "error" THEN
    IF isNoMatch(d.code) THEN done(Some(absent), None, <<>>, 1)
    ELSE done(None, Some(d.code), <<>>, 1)
  ELSE
    LET decodedInput == [name |-> d.name, args |-> d.args]
        r == IF startsWith(d.name, S_remove_liquidity) THEN parseRemoveLiquidity(t, p, decodedInput)
             ELSE IF startsWith(d.name, S_add_liquidity) THEN parseAddLiquidity(t, p, decodedInput)
             ELSE IF startsWith(d.name, S_exchange) THEN parseExchange(t, p, decodedInput)
             ELSE Return(None)
    IN  IF IsSome(r.thrown) THEN done(None, r.thrown, r.console, 1)
        ELSE done(Some([decodedInput |-> Some(decodedInput), transaction |-> r.value]),
                  None, r.console, 1)

-----------------------------------------------------------------------------
(* Inputs *)

AssetTypeNames == {"USD", UNKNOWN}
DecimalStrings == {<<0>>, <<2>>}
CoinSymbols == <<"cA", "cB", "cC", "cD">>
CoinAddresses == <<"0xA", "0xB", "0xC", "0xD">>

Coins(n) ==
  { [k \in 1..n |-> [symbol |-> CoinSymbols[k], address |-> CoinAddresses[k],
                     decimals |-> ds[k]]] : ds \in [1..n -> DecimalStrings] }

Pools ==
  UNION { { [address |-> "0xpool", assetTypeName |-> a, coins |-> cs] :
              a \in AssetTypeNames, cs \in Coins(n) } : n \in 1..MaxCoins }

Txs ==
  [hash : {"0xhash"}, timeStamp : {<<1, 6>>}, txreceipt_status : {"0", "1"},
   isError : {"0", "1"}, to : {"", "0xpool"}, input : {"0xdata"}, value : {"0"}]

ArgNames ==
  {"_amounts", "amounts", "uamounts", "_token_amount", "token_amount",
   "_burn_amount", "_amount", "dx", "_dx", "i", "j"}
NoArgs == [k \in ArgNames |-> None]

OptArrays(n) == {None} \cup { Some(a) : a \in [1..n -> 0..MaxRaw] }
(* Amount arrays one entry shorter or longer than the pool's coin list *)
Misaligned(n) ==
  { Some(a) : a \in UNION { [1..k -> 0..MaxRaw] : k \in {n - 1, n + 1} \ {0} } }
OptRaws == {None} \cup { Some(v) : v \in 0..MaxRaw }
OptIndices(n) == {None} \cup { Some(k) : k \in 0..n }

Call(name, args) == [kind |-> "ok", code |-> "", name |-> name, args |-> args]
DecodeError(code) == [kind |-> "error", code |-> code, name |-> <<>>, args |-> NoArgs]
NotInvoked == [kind |-> "none", code |-> "", name |-> <<>>, args |-> NoArgs]

(* What the ABI decoder may answer for a pool of n coins.  Amount arrays   *)
(* have one entry per pool coin (the ABI fixes uint256[N]), or, under the  *)
(* alias `amounts` alone, one entry less or more; an index may be n, one   *)
(* past the last coin.                                                     *)
DecodeOutcomes(n) ==
  { DecodeError(c) : c \in {"INVALID_ARGUMENT", "BUFFER_OVERRUN"} }
  \cup { Call(nm, NoArgs) :
           nm \in {S_exchange_underlying, S_remove_liquidity_other, S_add_liquidity_other,
                   S_exchange_other, S_transfer, S_add} }
  \cup { Call(S_add_liquidity,
              [NoArgs EXCEPT !["_amounts"] = a, !["amounts"] = b, !["uamounts"] = c]) :
           a \in OptArrays(n), b \in OptArrays(n), c \in OptArrays(n) }
  \cup { Call(S_remove_liquidity_imbalance,
              [NoArgs EXCEPT !["_amounts"] = a, !["amounts"] = b]) :
           a \in OptArrays(n), b \in OptArrays(n) }
  \cup { Call(nm, [NoArgs EXCEPT !["amounts"] = a]) :
           nm \in {S_add_liquidity, S_remove_liquidity_imbalance}, a \in Misaligned(n) }
  \cup { Call(S_remove_liquidity_one_coin,
              [NoArgs EXCEPT !["_token_amount"] = a, !["token_amount"] = b,
                             !["_burn_amount"] = c, !["i"] = i]) :
           a \in OptRaws, b \in OptRaws, c \in OptRaws, i \in OptIndices(n) }
  \cup { Call(S_remove_liquidity,
              [NoArgs EXCEPT !["_amount"] = a, !["_burn_amount"] = b]) :
           a \in OptRaws, b \in OptRaws }
  \cup { Call(S_exchange,
              [NoArgs EXCEPT !["dx"] = a, !["_dx"] = b, !["i"] = i, !["j"] = j]) :
           a \in OptRaws, b \in OptRaws, i \in OptIndices(n), j \in OptIndices(n) }

-----------------------------------------------------------------------------
(* State machine: one call of parseTransaction for a given pool on a       *)
(* transaction chosen by the caller; the decoder's answer is chosen when   *)
(* the decoder is called.                                                  *)

Init ==
  /\ pool \in Pools
  /\ tx = None
  /\ decoded = NotInvoked
  /\ ret = None
  /\ thrown = None
  /\ console = <<>>
  /\ decodeCalls = 0
  /\ pc = "ready"

ParseTransaction ==
  /\ pc = "ready"
  /\ \E t \in Txs :
       \E d \in (IF reachesDecode(t) THEN DecodeOutcomes(Len(pool.coins)) ELSE {NotInvoked}) :
         LET r == parseTransaction(pool, t, d)
         IN  /\ UNCHANGED pool
             /\ tx' = t
             /\ decoded' = d
             /\ ret' = r.ret
             /\ thrown' = r.thrown
             /\ console' = r.console
             /\ decodeCalls' = r.decodeCalls
             /\ pc' = "done"

Next == ParseTransaction

Spec == Init /\ [][Next]_vars

-----------------------------------------------------------------------------
(* Vocabulary of the properties *)

Done == pc = "done"
DecodedOk == Done /\ decoded.kind = "ok"
Absent == [decodedInput |-> None, transaction |-> None]
HasTx == Done /\ IsSome(ret) /\ IsSome(Get(ret).transaction)
Tx == Get(Get(ret).transaction)
NCoins == Len(pool.coins)
DecimalsOf(i) == Number(pool.coins[i].decimals)
ValidIndex(o) == IsSome(o) /\ Get(o) \in 0..(NCoins - 1)

(* The first present value of a priority list of optional values *)
RECURSIVE FirstPresent(_)
FirstPresent(os) ==
  IF Len(os) = 0 THEN None
  ELSE IF IsSome(os[1]) THEN os[1]
  ELSE FirstPresent(SubSeq(os, 2, Len(os)))

Arg(k) == decoded.args[k]

MaxDecimals ==
  CHOOSE d \in { Number(ds) : ds \in DecimalStrings } :
    \A ds \in DecimalStrings : Number(ds) <= d

(* A decimal of at most MaxDecimals places, in units of 10^-MaxDecimals *)
Scaled(d) == d.m * Pow10(MaxDecimals - d.e)

(* The decimal d is raw / 10^places *)
IsValue(d, raw, places) ==
  \/ raw = 0 /\ d.m = 0
  \/ /\ raw # 0
     /\ \E k \in 0..(IF places <= raw THEN places ELSE raw) :
          d.e + k = places /\ d.m * Pow10(k) = raw /\ (d.e > 0 => d.m % 10 # 0)

(* Sum over i of A[i] / 10^decimals[i], in units of 10^-MaxDecimals *)
RECURSIVE SumRaw(_, _)
SumRaw(A, i) ==
  IF i > Len(A) THEN 0
  ELSE A[i] * Pow10(MaxDecimals - DecimalsOf(i)) + SumRaw(A, i + 1)

(* Sum of the present amounts of a sequence of legs, same units *)
RECURSIVE SumLegs(_)
SumLegs(ts) ==
  IF Len(ts) = 0 THEN 0
  ELSE (IF IsSome(ts[1].amount) THEN Scaled(Get(ts[1].amount)) ELSE 0)
       + SumLegs(SubSeq(ts, 2, Len(ts)))

(* A total equals the sum of the present leg amounts *)
TotalIsSumOfLegs(total, ts) ==
  total.e <= MaxDecimals /\ Scaled(total) = SumLegs(ts)

(* The legs are exactly the non-zero entries of A, in coin order *)
LegsOfNonZero(ts, A, type) ==
  LET nz == { i \in 1..Len(A) : A[i] # 0 }
  IN  /\ Len(ts) = Cardinality(nz)
      /\ \A i \in nz :
           LET k == Cardinality({ j \in nz : j <= i })
           IN  /\ ts[k].symbol = pool.coins[i].symbol
               /\ ts[k].address = pool.coins[i].address
               /\ ts[k].type = type
               /\ IsSome(ts[k].amount)
               /\ IsValue(Get(ts[k].amount), A[i], DecimalsOf(i))

-----------------------------------------------------------------------------
C2_TotalIffKnown ==
  HasTx => (pool.assetTypeName = UNKNOWN <=> Tx.totalAmount = None)

C2_Witness ==
  /\ HasTx /\ pool.assetTypeName = UNKNOWN /\ Tx.type = "exchange"
  /\ IsSome(Tx.tokens[1].amount) /\ Get(Tx.tokens[1].amount).m # 0
  /\ Tx.totalAmount = None

(* C3: a transaction whose receipt status is not '1', or whose error flag  *)
(* is '1', or (those checks passed) that has no recipient, returns both    *)
(* decodedInput and transaction absent, and the decoder is never called.   *)
C3_NoDecodeOnFailed ==
  (Done /\ (tx.txreceipt_status # "1" \/ tx.isError = "1" \/ tx.to = ""))
  => /\ ret = Some(Absent)
     /\ thrown = None
     /\ decodeCalls = 0
     /\ decoded = NotInvoked

C3_Witness ==
  /\ Done /\ tx.txreceipt_status = "1" /\ tx.isError = "1" /\ tx.to # ""
  /\ ret = Some(Absent) /\ decodeCalls = 0

(* C4: for a successful transaction with a recipient, a decode failure     *)
(* INVALID_ARGUMENT returns both fields absent and throws nothing; any     *)
(* other decode failure returns nothing and is thrown to the caller.       *)
C4_DecodeFailure ==
  (Done /\ decoded.kind = "error")
  => /\ tx.txreceipt_status = "1" /\ tx.isError # "1" /\ tx.to # ""
     /\ decodeCalls = 1
     /\ IF decoded.code = "INVALID_ARGUMENT"
        THEN ret = Some(Absent) /\ thrown = None
        ELSE ret = None /\ thrown = Some(decoded.code)

C4_Witness ==
  /\ Done /\ decoded.kind = "error" /\ decoded.code = "BUFFER_OVERRUN"
  /\ ret = None /\ thrown = Some("BUFFER_OVERRUN")

(* C5: a decoded exchange with valid coin indices i and j and input amount *)
(* dx yields a transaction of type exchange with exactly two legs, in this *)
(* order: coin i, 'add', dx/10^decimals[i]; coin j, 'remove', no amount.   *)
(* This holds when i = j as well.                                          *)
C5_Exchange ==
  LET dx == FirstPresent(<<Arg("dx"), Arg("_dx")>>)
  IN  (DecodedOk /\ decoded.name = S_exchange /\ ValidIndex(Arg("i")) /\ ValidIndex(Arg("j"))
         /\ IsSome(dx))
      => LET ci == pool.coins[Get(Arg("i")) + 1]
             cj == pool.coins[Get(Arg("j")) + 1]
         IN  /\ HasTx
             /\ Tx.type = "exchange"
             /\ Len(Tx.tokens) = 2
             /\ Tx.tokens[1].symbol = ci.symbol /\ Tx.tokens[1].address = ci.address
             /\ Tx.tokens[1].type = "add"
             /\ IsSome(Tx.tokens[1].amount)
             /\ IsValue(Get(Tx.tokens[1].amount), Get(dx), Number(ci.decimals))
             /\ Tx.tokens[2].symbol = cj.symbol /\ Tx.tokens[2].address = cj.address
             /\ Tx.tokens[2].type = "remove"
             /\ Tx.tokens[2].amount = None

C5_Witness ==
  /\ HasTx /\ decoded.name = S_exchange
  /\ Arg("i") = Some(1) /\ Arg("j") = Some(1) /\ Arg("dx") = Some(1)
  /\ Len(Tx.tokens) = 2
  /\ Tx.tokens[1].symbol = Tx.tokens[2].symbol

(* C6: a decoded remove_liquidity_one_coin with valid coin index j and     *)
(* burn amount b yields a transaction of type remove_liquidity with        *)
(* exactly one leg: coin j, 'remove', no amount; for a pool that is not    *)
(* UNKNOWN the total is b/10^CURVE_POOL_TOKEN_DECIMALS, whatever the       *)
(* precision of coin j.                                                    *)
C6_RemoveOneCoin ==
  LET b == FirstPresent(<<Arg("_token_amount"), Arg("token_amount"), Arg("_burn_amount")>>)
  IN  (DecodedOk /\ decoded.name = S_remove_liquidity_one_coin /\ ValidIndex(Arg("i"))
         /\ IsSome(b))
      => LET cj == pool.coins[Get(Arg("i")) + 1]
         IN  /\ HasTx
             /\ Tx.type = "remove_liquidity"
             /\ Len(Tx.tokens) = 1
             /\ Tx.tokens[1].symbol = cj.symbol /\ Tx.tokens[1].address = cj.address
             /\ Tx.tokens[1].type = "remove"
             /\ Tx.tokens[1].amount = None
             /\ pool.assetTypeName # UNKNOWN
                  => /\ IsSome(Tx.totalAmount)
                     /\ IsValue(Get(Tx.totalAmount), Get(b), CURVE_POOL_TOKEN_DECIMALS)

C6_Witness ==
  /\ HasTx /\ decoded.name = S_remove_liquidity_one_coin
  /\ pool.assetTypeName # UNKNOWN
  /\ Arg("_token_amount") = Some(1) /\ Arg("i") = Some(0)
  /\ DecimalsOf(1) # CURVE_POOL_TOKEN_DECIMALS
  /\ Tx.totalAmount = Some([m |-> 1, e |-> CURVE_POOL_TOKEN_DECIMALS])

C8_NoZeroLegAllVariants ==
  HasTx => \A k \in 1..Len(Tx.tokens) :
             IsSome(Tx.tokens[k].amount) => Get(Tx.tokens[k].amount).m # 0

(* C8, amended: in every returned transaction record of a variant other    *)
(* than exchange no leg has a present amount equal to zero; an exchange    *)
(* keeps its source leg, whose amount is zero exactly when dx = 0.         *)
C8_NoZeroLegButExchange ==
  HasTx =>
    IF Tx.type # "exchange"
    THEN \A k \in 1..Len(Tx.tokens) :
           IsSome(Tx.tokens[k].amount) => Get(Tx.tokens[k].amount).m # 0
    ELSE /\ Len(Tx.tokens) = 2
         /\ IsSome(Tx.tokens[1].amount)
         /\ (Get(Tx.tokens[1].amount).m = 0
               <=> FirstPresent(<<Arg("dx"), Arg("_dx")>>) = Some(0))

C8_Witness ==
  /\ HasTx /\ decoded.name = S_add_liquidity
  /\ NCoins = 2 /\ Arg("_amounts") = Some(<<0, 1>>)
  /\ Len(Tx.tokens) = 1
  /\ Tx.tokens[1].symbol = pool.coins[2].symbol

(* C9, as stated: a decoded call with an unrecognized name returns the raw *)
(* decoded call with an absent transaction, throws nothing and emits a     *)
(* diagnostic notice, whether or not the name begins with one of the three *)
(* prefixes; exchange_underlying alone does so without a notice.           *)
C9_UnrecognizedWarns ==
  (DecodedOk /\ decoded.name \notin {S_add_liquidity, S_remove_liquidity_imbalance,
                                     S_remove_liquidity_one_coin, S_remove_liquidity,
                                     S_exchange})
  => /\ thrown = None
     /\ ret = Some([decodedInput |-> Some([name |-> decoded.name, args |-> decoded.args]),
                    transaction |-> None])
     /\ IF decoded.name = S_exchange_underlying
        THEN console = <<>>
        ELSE Len(console) = 1 /\ console[1].name = decoded.name

(* C10: the value a decoder uses is the first alias present in its         *)
(* priority order, whatever lower-priority aliases hold.                   *)
C10_AliasPriority ==
  HasTx =>
    /\ decoded.name = S_remove_liquidity_imbalance
         => LET A == FirstPresent(<<Arg("_amounts"), Arg("amounts")>>)
            IN  IsSome(A) /\ LegsOfNonZero(Tx.tokens, Get(A), "remove")
    /\ decoded.name = S_add_liquidity
         => LET A == FirstPresent(<<Arg("_amounts"), Arg("amounts"), Arg("uamounts")>>)
            IN  IsSome(A) /\ LegsOfNonZero(Tx.tokens, Get(A), "add")
    /\ decoded.name = S_exchange
         => LET dx == FirstPresent(<<Arg("dx"), Arg("_dx")>>)
            IN  /\ IsSome(dx)
                /\ IsValue(Get(Tx.tokens[1].amount), Get(dx),
                           Number(pool.coins[Get(Arg("i")) + 1].decimals))
    /\ (decoded.name = S_remove_liquidity_one_coin /\ IsSome(Tx.totalAmount))
         => LET b == FirstPresent(<<Arg("_token_amount"), Arg("token_amount"),
                                    Arg("_burn_amount")>>)
            IN  IsSome(b) /\ IsValue(Get(Tx.totalAmount), Get(b), CURVE_POOL_TOKEN_DECIMALS)
    /\ (decoded.name = S_remove_liquidity /\ IsSome(Tx.totalAmount))
         => LET b == FirstPresent(<<Arg("_amount"), Arg("_burn_amount")>>)
            IN  IsSome(b) /\ IsValue(Get(Tx.totalAmount), Get(b), CURVE_POOL_TOKEN_DECIMALS)

C10_Witness ==
  /\ HasTx /\ decoded.name = S_remove_liquidity_one_coin
  /\ Arg("_token_amount") = None /\ Arg("token_amount") = Some(1)
  /\ Arg("_burn_amount") = Some(0)
  /\ Tx.totalAmount = Some([m |-> 1, e |-> CURVE_POOL_TOKEN_DECIMALS])

====
